---- MODULE Spec2Model ----
(***************************************************************************)
(* Reconciliation of DART capital-raising filings into category tables.    *)
(*                                                                         *)
(* The repository holds three updaters, each writing a worksheet of its    *)
(* own:                                                                    *)
(*   "yusang"  rights_issue.py   get_and_update_yusang   sheet 유상증자    *)
(*   "bonds"   equity_linked.py  get_and_update_bonds    sheet 주식연계채권*)
(*   "main"    main.py           main                    sheet DART        *)
(* The worksheets are disjoint, so a behaviour follows one updater (chosen *)
(* in Init) through a sequence of runs against its worksheet.              *)
(*                                                                         *)
(* A row is projected to the columns the reconciliation reads or that tell *)
(* typed facts from extracted facts apart:                                 *)
(*   yusang  rcept_no (col 21), report_nm (col 2), typed (the columns      *)
(*           computed from the piicDecsn record), issue_price (col 8),     *)
(*           investor (col 19)                                             *)
(*   bonds   rcept_no (index 24), type (index 0), price (index 16, from    *)
(*           the detail record), put_option, call_option, call_ratio, ytc  *)
(*           (indices 10..13)                                              *)
(*   main    rcept_no (col 1), typed (the piicDecsn columns), issue_price  *)
(*           (col 8)                                                       *)
(***************************************************************************)
EXTENDS Integers, Sequences, FiniteSets, TLC

\* ---------------------------------------------------------------- bounds
MaxDup == 2     \* how often one list query may name the same filing
MaxRuns == 2    \* runs of the updater in one behaviour
MaxLen == 4     \* atoms of a candidate text given to clean_price or clean_date
MaxRate == 3    \* atoms of a rate text given to clean_discount
MaxRows == 3    \* table rows of a document
MaxWords == 3   \* words of the text of a bond document

\* Two filings, by identity key (rcept_no); the updaters iterate in key order.
Keys == {1, 2}
LastKey == CHOOSE k \in Keys : \A j \in Keys : j <= k
Updaters == {"yusang", "bonds", "main"}

VARIABLES
    updater,        \* which script / worksheet this behaviour follows
    report_nm,      \* the category keyword in each filing's report title
    sheet,          \* the worksheet: sheet[1] is the header row
    snapshot,       \* the worksheet as read at the start of the run
    inp,            \* what list, detail and document endpoints answer in this run
    pc,             \* "idle" | "config" | "loop" | "ended"
    cfg,            \* bonds: index of the bond_configs entry being processed
    queue,          \* the rows still to iterate (df_merged / new_items / existing_data_df)
    data_to_add,    \* rows collected for the batched append_rows
    runs,           \* runs started so far
    outcome,        \* how the run ended: "none" | "done" | "returned" | "aborted"
    ev,             \* the last step taken, for stating the properties
    handled,        \* keys whose loop iteration ran to its end in this run
    updated,        \* keys for which worksheet.update was called in this run
    arg,            \* the arguments of the cleaning or extraction function under study
    res             \* what that function returned ("pending": not yet called)

vars == <<updater, report_nm, sheet, snapshot, inp, pc, cfg, queue, data_to_add, runs,
          outcome, ev, handled, updated, arg, res>>

\* ------------------------------------------------------------ unknown markers
\* rights_issue.py 57-60, equity_linked.py 52-55: the defaults of a field nothing
\* was extracted for; main.py 262: the empty string. "SEE_SOURCE" stands for the
\* investor default 원문참조 (strings of the module are ASCII).
Unknown == {"-", "X", "SEE_SOURCE", ""}

\* ---------------------------------------------------------------- rows
\* The header row's identity-key cell holds a label, written 0 here: no filing's key.
NoRow == [rcept_no |-> 0]

HeaderY == [rcept_no |-> 0, report_nm |-> "hdr", typed |-> "hdr",
            issue_price |-> "hdr", investor |-> "hdr"]
HeaderB == [rcept_no |-> 0, type |-> "hdr", price |-> "hdr",
            put_option |-> "hdr", call_option |-> "hdr",
            call_ratio |-> "hdr", ytc |-> "hdr"]
HeaderM == [rcept_no |-> 0, typed |-> "hdr", issue_price |-> "hdr"]

Header(u) == CASE u = "yusang" -> HeaderY [] u = "bonds" -> HeaderB [] OTHER -> HeaderM

\* The columns filled from the document body.
ExtFields(u) ==
    CASE u = "yusang" -> {"issue_price", "investor"}
      [] u = "bonds"  -> {"put_option", "call_option", "call_ratio", "ytc"}
      [] OTHER        -> {"issue_price"}

\* ---------------------------------------------------------------- inputs
\* equity_linked.py 228-232: the bond_configs entries, in loop order.
BondTypes == <<"CB", "BW", "EB">>

\* The category keyword each filing's report title carries (immutable metadata
\* of the filing): a bond keyword, or the rights-issue keyword "RI". For the
\* bond table, both filings are of the first bond type (one bond_configs entry
\* handles both) or of the second and the third (two entries handle one each,
\* after an entry with no filing).
Titles(u) ==
    IF u = "bonds"
    THEN {[k \in Keys |-> BondTypes[1]], [k \in Keys |-> BondTypes[k + 1]]}
    ELSE {[k \in Keys |-> "RI"]}

\* What the external collaborators answer during one run, per identity key k:
\*   lc   how many entries of the list query name k with a title that matches
\*        the updater's keyword (0: not listed, or listed under another title)
\*   det  the detail endpoint's record for k: "none" (no record: the endpoint lags
\*        or its query failed and fetch_dart_json returned an empty frame),
\*        "error" (main only: the request raises), or a version of the record
\*        (bonds: "d0" carries no conversion price, "d1" carries one)
\*   doc  the document endpoint's answer for k: "fail" (the request raises, a
\*        non-success status, an unreadable archive) or a document
\* Answers nobody reads are fixed, to keep one input per case: the document of a
\* filing that is not processed; the detail record main never asks for; in bonds
\* a repeated list entry (target_rcept_nos is unique()) and the detail record of
\* an unlisted key (df_merged keeps the listed keys only).
Dets(u) ==
    CASE u = "yusang" -> {"none", "d1"}
      [] u = "bonds"  -> {"none", "d0", "d1"}
      [] OTHER        -> {"none", "error", "d1"}

Docs(u) ==
    CASE u = "bonds" -> {"fail", "noytc", "full"}
      [] OTHER       -> {"fail", "full"}

KeyInputs(u) ==
    { r \in [lc : 0..MaxDup, det : Dets(u), doc : Docs(u)] :
        /\ (r.det = "error") => r.doc = "fail"
        /\ (r.det = "none" /\ u # "main") => r.doc = "fail"
        /\ (r.lc = 0 /\ u # "yusang") => (r.det = "none" /\ r.doc = "fail")
        /\ (u = "bonds") => r.lc <= 1 }

Inputs(u) == [Keys -> KeyInputs(u)]

NoInput == [k \in Keys |-> [lc |-> 0, det |-> "none", doc |-> "fail"]]

\* ---------------------------------------------------------------- extraction
\* The document's facts as the row shows them; a failed fetch leaves the defaults.
extract_xml_details(doc) ==
    IF doc = "fail"
    THEN [issue_price |-> "-", investor |-> "SEE_SOURCE"]
    ELSE [issue_price |-> "9,200", investor |-> "THIRD_PARTY"]

extract_bond_xml_details(doc) ==
    CASE doc = "fail"  -> [put_option |-> "X", call_option |-> "X", call_ratio |-> "X", ytc |-> "X"]
      [] doc = "noytc" -> [put_option |-> "PUT", call_option |-> "CALL", call_ratio |-> "5%", ytc |-> "X"]
      [] OTHER         -> [put_option |-> "PUT", call_option |-> "CALL", call_ratio |-> "5%", ytc |-> "3%"]

\* A variant that writes a zero for a price it could not read.
parse_document_fields_zero(doc) ==
    IF doc = "fail" THEN [issue_price |-> "0"] ELSE [issue_price |-> "9200"]

\* main.py 388-393: an exception of parse_document_fields is caught and doc = {}.
parse_document_fields(doc) ==
    IF doc = "fail" THEN [issue_price |-> ""] ELSE [issue_price |-> "9200"]

\* ---------------------------------------------------------------- row builders
new_row(k, listed, det, doc) ==
    LET xml_data == extract_xml_details(doc)
    IN [rcept_no |-> k, report_nm |-> IF listed THEN "RI" ELSE "NaN", typed |-> det,
        issue_price |-> xml_data.issue_price, investor |-> xml_data.investor]

format_bond_row(k, type, det, doc) ==
    LET xml_data == extract_bond_xml_details(doc)
    IN [rcept_no |-> k, type |-> type, price |-> IF det = "d0" THEN "-" ELSE "1,000",
        put_option |-> xml_data.put_option, call_option |-> xml_data.call_option,
        call_ratio |-> xml_data.call_ratio, ytc |-> xml_data.ytc]

build_row(k, det, doc) ==
    [rcept_no |-> k, typed |-> det, issue_price |-> parse_document_fields(doc).issue_price]

\* ---------------------------------------------------------------- the index
\* worksheet.col_values(21) / row[24] of get_all_values / col_values(1)
existing_rcept_nos(s) == [j \in 1..Len(s) |-> s[j].rcept_no]

KeysOf(s) == {existing_rcept_nos(s)[j] : j \in 1..Len(s)}

\* list.index(x) + 1: the first row holding the key
FirstRow(s, k) == CHOOSE j \in 1..Len(s) : s[j].rcept_no = k /\ \A h \in 1..(j-1) : s[h].rcept_no # k

\* A variant of the index that stores the list position i instead of the row
\* number i + 1.
rcept_row_map_zero_based(s, k) ==
    (CHOOSE j \in 1..Len(s) : s[j].rcept_no = k /\ \A h \in (j+1)..Len(s) : s[h].rcept_no # k) - 1

\* the dict comprehension keeps the last row holding the key
rcept_row_map(s, k) == CHOOSE j \in 1..Len(s) : s[j].rcept_no = k /\ \A h \in (j+1)..Len(s) : s[h].rcept_no # k

\* A variant that finds no key processed.
get_processed_rcept_set_none(s) == {}

get_processed_rcept_set(s) == KeysOf(s) \ {0}

Copies(e, n) == [j \in 1..n |-> e]

\* ---------------------------------------------------------------- events
Event(kind, k, fresh, idx, stored) ==
    [kind |-> kind, rcept_no |-> k, fresh |-> fresh, idx |-> idx, stored |-> stored]

NoEvent == Event("none", 0, NoRow, 0, NoRow)

\* No cleaning function is under study while the updaters run.
NoCall == [fn |-> "none"]

\* ---------------------------------------------------------------- Init
Init ==
    /\ updater \in Updaters
    /\ sheet = <<Header(updater)>>
    /\ snapshot = <<Header(updater)>>
    /\ report_nm \in Titles(updater)
    /\ inp = NoInput
    /\ pc = "idle"
    /\ cfg = 0
    /\ queue = <<>>
    /\ data_to_add = <<>>
    /\ runs = 0
    /\ outcome = "none"
    /\ ev = NoEvent
    /\ handled = {}
    /\ updated = {}
    /\ arg = NoCall
    /\ res = "none"

\* The function returns or an exception leaves it: the run has ended.
EndRun(how) ==
    /\ pc' = "ended"
    /\ outcome' = how

\* What every start of a run does.
BeginRun(i) ==
    /\ pc = "idle"
    /\ runs' = runs + 1
    /\ inp' = i
    /\ snapshot' = sheet
    /\ data_to_add' = <<>>
    /\ handled' = {}
    /\ updated' = {}
    /\ UNCHANGED <<updater, report_nm, sheet, arg, res>>

\* ------------------------------------------------------- get_and_update_yusang
RECURSIVE df_merged(_, _)
\* pd.merge(df_combined, df_filtered, on='rcept_no', how='left'): one row per
\* detail record and matching list entry, and one row (report_nm NaN) for a
\* detail record no filtered list entry matches.
df_merged(i, k) ==
    IF k > LastKey THEN <<>>
    ELSE (IF i[k].det = "none" THEN <<>>
          ELSE Copies([rcept_no |-> k, listed |-> i[k].lc > 0],
                      IF i[k].lc = 0 THEN 1 ELSE i[k].lc))
         \o df_merged(i, k + 1)

\* rights_issue.py 232-272: list query, keyword filter, detail queries, merge,
\* and the one read of column 21.
StartYusang(i) ==
    /\ updater = "yusang"
    /\ BeginRun(i)
    /\ IF (\A k \in Keys : i[k].lc = 0) \/ (\A k \in Keys : i[k].det = "none")
       THEN /\ EndRun("returned")
            /\ queue' = <<>>
            /\ ev' = Event("return", 0, NoRow, 0, NoRow)
       ELSE /\ pc' = "loop"
            /\ outcome' = "none"
            /\ queue' = df_merged(i, 1)
            /\ ev' = Event("start", 0, NoRow, 0, NoRow)
    /\ UNCHANGED cfg

\* rights_issue.py 276-366: one iteration of the loop over df_merged.
YusangStep ==
    /\ updater = "yusang"
    /\ pc = "loop"
    /\ queue # <<>>
    /\ LET row == Head(queue)
           rcept_no == row.rcept_no
           fresh == new_row(rcept_no, row.listed, inp[rcept_no].det, inp[rcept_no].doc)
       IN IF rcept_no \in KeysOf(snapshot)
          THEN LET row_idx == FirstRow(snapshot, rcept_no)
               IN \E ok \in BOOLEAN :
                    /\ updated' = updated \cup {rcept_no}
                    /\ IF ok
                       THEN /\ sheet' = [sheet EXCEPT ![row_idx] = fresh]
                            /\ queue' = Tail(queue)
                            /\ handled' = handled \cup {rcept_no}
                            /\ ev' = Event("update", rcept_no, fresh, row_idx, sheet[row_idx])
                            /\ UNCHANGED <<pc, outcome>>
                       ELSE \* worksheet.update raises: nothing catches it
                            /\ EndRun("aborted")
                            /\ ev' = Event("abort", rcept_no, fresh, row_idx, sheet[row_idx])
                            /\ UNCHANGED <<sheet, queue, handled>>
                    /\ UNCHANGED data_to_add
          ELSE /\ data_to_add' = Append(data_to_add, fresh)
               /\ queue' = Tail(queue)
               /\ handled' = handled \cup {rcept_no}
               /\ ev' = Event("queue", rcept_no, fresh, 0, NoRow)
               /\ UNCHANGED <<sheet, updated, pc, outcome>>
    /\ UNCHANGED <<updater, report_nm, snapshot, inp, cfg, runs, arg, res>>

\* A variant of the batched append that ends the run without writing the batch.
FlushDropsBatch ==
    /\ updater \in {"yusang", "main"}
    /\ pc = "loop"
    /\ queue = <<>>
    /\ EndRun("done")
    /\ ev' = Event("flush", 0, NoRow, 0, NoRow)
    /\ UNCHANGED <<updater, report_nm, sheet, snapshot, inp, cfg, queue, data_to_add, runs, handled, updated,
                   arg, res>>

\* rights_issue.py 369-373 / main.py 397-401: the batched append_rows.
Flush ==
    /\ updater \in {"yusang", "main"}
    /\ pc = "loop"
    /\ queue = <<>>
    /\ IF data_to_add # <<>>
       THEN \E ok \in BOOLEAN :
              IF ok
              THEN /\ sheet' = sheet \o data_to_add
                   /\ EndRun("done")
                   /\ ev' = Event("flush", 0, NoRow, 0, NoRow)
              ELSE /\ EndRun("aborted")
                   /\ ev' = Event("flushfail", 0, NoRow, 0, NoRow)
                   /\ UNCHANGED sheet
       ELSE /\ EndRun("done")
            /\ ev' = Event("flush", 0, NoRow, 0, NoRow)
            /\ UNCHANGED sheet
    /\ UNCHANGED <<updater, report_nm, snapshot, inp, cfg, queue, data_to_add, runs, handled, updated,
                   arg, res>>

\* ------------------------------------------------------------------- main
RECURSIVE new_items(_, _, _)
\* main.py 374-376: the listed filings whose title matches and whose key is not
\* in the processed set.
new_items(i, processed, k) ==
    IF k > LastKey THEN <<>>
    ELSE (IF k \in processed THEN <<>> ELSE Copies([rcept_no |-> k, listed |-> TRUE], i[k].lc))
         \o new_items(i, processed, k + 1)

StartMain(i) ==
    /\ updater = "main"
    /\ BeginRun(i)
    /\ pc' = "loop"
    /\ outcome' = "none"
    /\ queue' = new_items(i, get_processed_rcept_set(sheet), 1)
    /\ ev' = Event("start", 0, NoRow, 0, NoRow)
    /\ UNCHANGED cfg

\* main.py 379-395: one iteration of the loop over new_items.
MainStep ==
    /\ updater = "main"
    /\ pc = "loop"
    /\ queue # <<>>
    /\ LET rcept_no == Head(queue).rcept_no
           piic == inp[rcept_no].det
           fresh == build_row(rcept_no, piic, inp[rcept_no].doc)
       IN IF piic = "error"
          THEN \* dart_piic_for_rcept raises (raise_for_status): nothing catches it
               /\ EndRun("aborted")
               /\ ev' = Event("abort", rcept_no, NoRow, 0, NoRow)
               /\ UNCHANGED <<queue, data_to_add, handled>>
          ELSE /\ data_to_add' = Append(data_to_add, fresh)
               /\ queue' = Tail(queue)
               /\ handled' = handled \cup {rcept_no}
               /\ ev' = Event("queue", rcept_no, fresh, 0, NoRow)
               /\ UNCHANGED <<pc, outcome>>
    /\ UNCHANGED <<updater, report_nm, sheet, snapshot, inp, cfg, runs, updated, arg, res>>

\* ------------------------------------------------------- get_and_update_bonds
\* A variant of df_merged that keeps the listed keys without a detail record.
bond_merged_listed(i, type) ==
    {k \in Keys : i[k].lc > 0 /\ report_nm[k] = type}

\* The keys of df_merged for one bond_configs entry: the detail records whose
\* key is among the (unique) keys of the list entries matching the keyword.
bond_merged(i, type) ==
    {k \in Keys : i[k].lc > 0 /\ report_nm[k] = type /\ i[k].det # "none"}

RECURSIVE bond_new_rows(_, _, _, _)
\* equity_linked.py 284-288: the formatted row of every new key, in order.
bond_new_rows(i, type, new, k) ==
    IF k > LastKey THEN <<>>
    ELSE (IF k \in new THEN <<format_bond_row(k, type, i[k].det, i[k].doc)>> ELSE <<>>)
         \o bond_new_rows(i, type, new, k + 1)

RECURSIVE existing_data_df(_, _)
existing_data_df(old, k) ==
    IF k > LastKey THEN <<>>
    ELSE (IF k \in old THEN <<[rcept_no |-> k, listed |-> TRUE]>> ELSE <<>>)
         \o existing_data_df(old, k + 1)

\* Variants of the decisions of logic B, for showing what the properties depend on:
\* a gate that never opens, and a comparison that answers "differs" for every pair.
needs_update_never(sheet_row) == FALSE

row_differs_always(updated_row, sheet_row) == TRUE

\* A variant of the columns the gate looks at, with the yield-to-call column.
check_indices_with_ytc == {"put_option", "call_option", "call_ratio", "price", "ytc"}

\* A variant of the columns the gate looks at, without the price column.
check_indices_no_price == {"put_option", "call_option", "call_ratio"}

\* equity_linked.py 313-318: the stored row still holds a placeholder in one of
\* the columns 10, 11, 12, 16. "NONE" stands for the placeholder 없음.
check_indices == {"put_option", "call_option", "call_ratio", "price"}

needs_update(sheet_row) == \E f \in check_indices : sheet_row[f] \in {"X", "-", "", "NONE"}

\* equity_linked.py 327: updated_row[:len(sheet_row)] != sheet_row[:len(updated_row)];
\* both rows hold 25 strings.
row_differs(updated_row, sheet_row) == updated_row # sheet_row

\* equity_linked.py 221-245: the list query and the one read of the worksheet.
StartBonds(i) ==
    /\ updater = "bonds"
    /\ BeginRun(i)
    /\ queue' = <<>>
    /\ IF \A k \in Keys : i[k].lc = 0
       THEN /\ EndRun("returned")
            /\ ev' = Event("return", 0, NoRow, 0, NoRow)
            /\ UNCHANGED cfg
       ELSE /\ pc' = "config"
            /\ outcome' = "none"
            /\ cfg' = 1
            /\ ev' = Event("start", 0, NoRow, 0, NoRow)

\* equity_linked.py 248: on to the next bond_configs entry, or the run ends.
NextConfig ==
    IF cfg < Len(BondTypes)
    THEN /\ cfg' = cfg + 1
         /\ pc' = "config"
         /\ UNCHANGED outcome
    ELSE /\ EndRun("done")
         /\ UNCHANGED cfg

\* equity_linked.py 248-299: one bond_configs entry up to its update loop: the
\* keyword filter, the detail queries, and logic A (format and append the rows
\* of the keys the index does not hold).
BondConfig ==
    /\ updater = "bonds"
    /\ pc = "config"
    /\ LET type == BondTypes[cfg]
           merged == bond_merged(inp, type)
           new == merged \ KeysOf(snapshot)
           rows == bond_new_rows(inp, type, new, 1)
           old == existing_data_df(merged \ new, 1)
       IN /\ data_to_add' = rows
          /\ \E ok \in (IF rows # <<>> THEN BOOLEAN ELSE {TRUE}) :
               IF ok
               THEN /\ sheet' = sheet \o rows
                    /\ handled' = handled \cup new
                    /\ queue' = old
                    /\ ev' = Event(IF rows # <<>> THEN "append" ELSE "config", 0, NoRow, 0, NoRow)
                    /\ IF old = <<>> THEN NextConfig
                       ELSE pc' = "loop" /\ UNCHANGED <<cfg, outcome>>
               ELSE \* worksheet.append_rows raises: nothing catches it
                    /\ EndRun("aborted")
                    /\ ev' = Event("flushfail", 0, NoRow, 0, NoRow)
                    /\ UNCHANGED <<sheet, handled, queue, cfg>>
    /\ UNCHANGED <<updater, report_nm, snapshot, inp, runs, updated, arg, res>>

\* equity_linked.py 302-331: logic B, one iteration over existing_data_df.
BondUpdate ==
    /\ updater = "bonds"
    /\ pc = "loop"
    /\ queue # <<>>
    /\ LET rcept_no == Head(queue).rcept_no
           row_idx == rcept_row_map(snapshot, rcept_no)
           sheet_row == snapshot[row_idx]
           updated_row == format_bond_row(rcept_no, BondTypes[cfg], inp[rcept_no].det,
                                          inp[rcept_no].doc)
           write == needs_update(sheet_row) /\ row_differs(updated_row, sheet_row)
       IN \E ok \in (IF write THEN BOOLEAN ELSE {TRUE}) :
            IF ok
            THEN /\ sheet' = IF write THEN [sheet EXCEPT ![row_idx] = updated_row] ELSE sheet
                 /\ updated' = IF write THEN updated \cup {rcept_no} ELSE updated
                 /\ queue' = Tail(queue)
                 /\ handled' = handled \cup {rcept_no}
                 /\ ev' = IF write
                          THEN Event("update", rcept_no, updated_row, row_idx, sheet[row_idx])
                          ELSE IF needs_update(sheet_row)
                          THEN Event("skip", rcept_no, updated_row, row_idx, sheet[row_idx])
                          \* no placeholder: no document is fetched, no row formatted
                          ELSE Event("ungated", rcept_no, NoRow, row_idx, sheet[row_idx])
                 /\ IF Tail(queue) = <<>> THEN NextConfig
                    ELSE UNCHANGED <<pc, cfg, outcome>>
            ELSE \* worksheet.update raises: nothing catches it
                 /\ updated' = updated \cup {rcept_no}
                 /\ EndRun("aborted")
                 /\ ev' = Event("abort", rcept_no, updated_row, row_idx, sheet[row_idx])
                 /\ UNCHANGED <<sheet, queue, handled, cfg>>
    /\ UNCHANGED <<updater, report_nm, snapshot, inp, data_to_add, runs, arg, res>>

\* The script's process exits: its locals are gone, the worksheet stays.
Exit ==
    /\ pc = "ended"
    /\ pc' = "idle"
    /\ snapshot' = <<Header(updater)>>
    /\ inp' = NoInput
    /\ cfg' = 0
    /\ queue' = <<>>
    /\ data_to_add' = <<>>
    /\ outcome' = "none"
    /\ ev' = NoEvent
    /\ handled' = {}
    /\ updated' = {}
    /\ UNCHANGED <<updater, report_nm, sheet, runs, arg, res>>

\* ---------------------------------------------------------------- Spec
StartRun ==
    /\ pc = "idle"
    /\ runs < MaxRuns
    /\ \E i \in Inputs(updater) : StartYusang(i) \/ StartBonds(i) \/ StartMain(i)

Next ==
    \/ StartRun
    \/ YusangStep
    \/ MainStep
    \/ Flush
    \/ BondConfig
    \/ BondUpdate
    \/ Exit

Spec == Init /\ [][Next]_vars

\* ------------------------------------------------- a run and its repetition
\* The script is run again against the same list, detail records and documents,
\* with no other writer to the worksheet: after MaxRuns - 1 earlier runs, a run
\* that came to its end exits keeping what the endpoints answer, and the next
\* run gets the same answers.
ExitBetween ==
    /\ runs < MaxRuns
    /\ Exit

ExitKeep ==
    /\ pc = "ended"
    /\ runs = MaxRuns
    /\ outcome \in {"done", "returned"}
    /\ pc' = "idle"
    /\ snapshot' = <<Header(updater)>>
    /\ cfg' = 0
    /\ queue' = <<>>
    /\ data_to_add' = <<>>
    /\ outcome' = "none"
    /\ ev' = NoEvent
    /\ handled' = {}
    /\ updated' = {}
    /\ UNCHANGED <<updater, report_nm, sheet, runs, inp, arg, res>>

Rerun ==
    /\ pc = "idle"
    /\ runs = MaxRuns
    /\ (StartYusang(inp) \/ StartBonds(inp) \/ StartMain(inp))

NextRerun ==
    \/ StartRun
    \/ YusangStep
    \/ MainStep
    \/ Flush
    \/ BondConfig
    \/ BondUpdate
    \/ ExitBetween
    \/ ExitKeep
    \/ Rerun

SpecRerun == Init /\ [][NextRerun]_vars

\* ==================================================== the cleaning functions
\* rights_issue.py 116-183: clean_price, clean_date and clean_discount turn the
\* raw text captured for a field into the value the row shows. A text is a
\* sequence of characters, one-character strings; the Korean words the code
\* looks for are written as one character each:
\*   "W" 원    "U" 미정    "N" 해당없음 / 기재생략    "D" 할인    "P" 할증
\*   "y" 년    "m" 월    "d" 일
\* and so are the labels of the table rows:
\*   "I" 신주발행가액    "B" 기준주가    "D" 할인율    "P" 할증률
\*   "A" 이사회결의일    "Y" 납입일    "V" 배당기산일    "L" 상장예정일
\*   "T" 제3자배정
\* A missing text (None) and the empty text are both written <<>>.
Digits == <<"0", "1", "2", "3", "4", "5", "6", "7", "8", "9">>

IsDigit(c) == \E d \in 1..10 : Digits[d] = c

Dash == <<"-">>

\* The candidate texts are built from atoms (short pieces of text), so that
\* texts with a year and a price fit the bound; what the functions see is the
\* flattened sequence of characters.
RECURSIVE Flatten(_)
Flatten(atoms) == IF atoms = <<>> THEN <<>> ELSE Head(atoms) \o Flatten(Tail(atoms))

TextsOf(atoms) == UNION {[1..n -> atoms] : n \in 0..MaxLen}

\* re.sub(pattern, '', text) for a pattern that is a class of single characters
re_sub(class, text) == SelectSeq(text, LAMBDA c : c \notin class)

\* re.search(r'^(미정|해당없음|기재생략|-)', text_clean)
starts_undetermined(text_clean) == text_clean # <<>> /\ text_clean[1] \in {"U", "N", "-"}

\* The maximal runs of digits of a text, left to right.
RECURSIVE digit_runs(_, _)
digit_runs(text, cur) ==
    IF text = <<>> THEN (IF cur = <<>> THEN <<>> ELSE <<cur>>)
    ELSE IF IsDigit(Head(text)) THEN digit_runs(Tail(text), Append(cur, Head(text)))
    ELSE (IF cur = <<>> THEN <<>> ELSE <<cur>>) \o digit_runs(Tail(text), <<>>)

\* re.findall(r'(?<!\d)([1-9]\d{2,})(?!\d)', text_clean): the maximal digit runs
\* of three or more digits that do not start with 0.
price_findall(text_clean) ==
    SelectSeq(digit_runs(text_clean, <<>>), LAMBDA r : Len(r) >= 3 /\ r[1] # "0")

\* A Python int is written as its decimal numeral (no leading zero), which has
\* no bound. int(val_str) of a digit string:
RECURSIVE int(_)
int(val_str) ==
    IF Len(val_str) > 1 /\ val_str[1] = "0" THEN int(Tail(val_str)) ELSE val_str

\* f"{val:,}"
RECURSIVE format_comma(_)
format_comma(val) ==
    IF Len(val) <= 3 THEN val
    ELSE format_comma(SubSeq(val, 1, Len(val) - 3)) \o <<",">> \o SubSeq(val, Len(val) - 2, Len(val))

\* rights_issue.py 127: the numbers taken for a year, not a price
Years == {<<"2", "0", "2", "3">>, <<"2", "0", "2", "4">>, <<"2", "0", "2", "5">>,
          <<"2", "0", "2", "6">>, <<"2", "0", "2", "7">>}

\* rights_issue.py 116-129
clean_price(text) ==
    IF text = <<>> THEN Dash
    ELSE LET text_clean == re_sub({" ", ",", "W"}, text)
         IN IF starts_undetermined(text_clean) THEN Dash
            ELSE LET nums == price_findall(text_clean)
                     prices == SelectSeq(nums, LAMBDA val_str : int(val_str) \notin Years)
                 IN IF prices = <<>> THEN Dash ELSE format_comma(int(Head(prices)))

\* The leading digits of a text.
RECURSIVE lead_digits(_)
lead_digits(text) ==
    IF text # <<>> /\ IsDigit(text[1]) THEN <<text[1]>> \o lead_digits(Tail(text)) ELSE <<>>

\* ------------------------------------------------------------ clean_discount
Zero == <<"0", ".", "0", "0", "%">>

\* 'word' in text
contains(text, c) == \E p \in 1..Len(text) : text[p] = c

\* re.search(r'^(미정|해당사항없음|해당없음|기재생략)', text_clean)
starts_not_applicable_never(text_clean) == FALSE

starts_not_applicable(text_clean) == text_clean # <<>> /\ text_clean[1] \in {"U", "N"}

\* a > b for two numerals
RECURSIVE numeral_gt(_, _)
numeral_gt(a, b) ==
    IF Len(a) # Len(b) THEN Len(a) > Len(b)
    ELSE IF a = <<>> THEN FALSE
    ELSE IF Head(a) # Head(b)
    THEN (CHOOSE d \in 1..10 : Digits[d] = Head(a)) > (CHOOSE d \in 1..10 : Digits[d] = Head(b))
    ELSE numeral_gt(Tail(a), Tail(b))

\* float(issue_p.replace(',', '')) of a price as clean_price formats it: a whole
\* number, kept as its numeral
float_of_price(p) == int(re_sub({","}, p))

\* rights_issue.py 151-159: 1 when the issue price is above the base price, -1
\* when below, 0 when equal or when one of them is unknown
math_sign_none(issue_p, base_p) == 0

math_sign(issue_p, base_p) ==
    IF issue_p # Dash /\ base_p # Dash
    THEN LET i_v == float_of_price(issue_p)
             b_v == float_of_price(base_p)
         IN IF numeral_gt(b_v, <<"0">>)
            THEN (IF numeral_gt(i_v, b_v) THEN 1 ELSE IF numeral_gt(b_v, i_v) THEN -1 ELSE 0)
            ELSE 0
    ELSE 0

\* rights_issue.py 162: re.search(r'([+\-]?\d+(?:\.\d+)?)', text_clean). The first
\* match starts at the first digit of the text, or at a sign character standing
\* immediately before it. The match is kept as its sign character ("" when there
\* is none), its whole digits and its decimals.
NoMatch == [found |-> FALSE, sign |-> "", whole |-> <<>>, frac |-> <<>>]

rate_search(text_clean) ==
    IF \A p \in 1..Len(text_clean) : ~IsDigit(text_clean[p]) THEN NoMatch
    ELSE LET p == CHOOSE q \in 1..Len(text_clean) :
                      IsDigit(text_clean[q]) /\ \A r \in 1..(q - 1) : ~IsDigit(text_clean[r])
             whole == lead_digits(SubSeq(text_clean, p, Len(text_clean)))
             rest == SubSeq(text_clean, p + Len(whole), Len(text_clean))
             frac == IF Len(rest) >= 2 /\ rest[1] = "." THEN lead_digits(Tail(rest)) ELSE <<>>
         IN [found |-> TRUE,
             sign |-> IF p > 1 /\ text_clean[p - 1] \in {"+", "-"} THEN text_clean[p - 1] ELSE "",
             whole |-> whole, frac |-> frac]

\* val == 0 for val = float(val_str): every digit of the match is 0. (The texts
\* are short enough for the float to keep every digit apart from zero.)
val_is_zero_never(m) == FALSE

val_is_zero(m) == \A p \in 1..Len(m.whole \o m.frac) : (m.whole \o m.frac)[p] = "0"

\* abs(val) > 100
abs_over_100_never(m) == FALSE

abs_over_100(m) ==
    LET w == int(m.whole)
    IN \/ Len(w) > 3
       \/ Len(w) = 3 /\ (w # <<"1", "0", "0">> \/ \E p \in 1..Len(m.frac) : m.frac[p] # "0")

\* f"{abs(val):.2f}": the whole part and two decimals. The digits of the rate
\* texts are 0 and 1, so the third decimal never rounds the second one up.
format_2f(m) == int(m.whole) \o <<".">> \o SubSeq(m.frac \o <<"0", "0">>, 1, 2)

\* rights_issue.py 179-180: the sign the header of the row stands for
label_sign_plus(header_text) == "+"

label_sign(header_text) ==
    IF contains(header_text, "P") /\ ~contains(header_text, "D") THEN "+" ELSE "-"

\* rights_issue.py 145-183
clean_discount(text, issue_p, base_p, header_text) ==
    IF text = <<>> THEN Dash
    ELSE LET text_clean == re_sub({" "}, text)
             m == rate_search(text_clean)
         IN IF starts_not_applicable(text_clean) THEN Zero
            ELSE IF m.found
            THEN IF val_is_zero(m) THEN Zero
                 ELSE IF abs_over_100(m) THEN Dash
                 ELSE IF math_sign(issue_p, base_p) # 0
                 THEN <<IF math_sign(issue_p, base_p) = 1 THEN "+" ELSE "-">> \o format_2f(m) \o <<"%">>
                 ELSE IF m.sign = "-" THEN <<"-">> \o format_2f(m) \o <<"%">>
                 ELSE IF m.sign = "+" THEN <<"+">> \o format_2f(m) \o <<"%">>
                 ELSE <<label_sign(header_text)>> \o format_2f(m) \o <<"%">>
            ELSE IF text_clean = Dash THEN Zero
            ELSE Dash

\* The atoms of the rate texts: digits, a number at the bound, the decimal point,
\* the sign characters, the percent sign, a blank, the phrases.
RateAtoms ==
    {<<"0">>, <<"1">>, <<"1", "0", "0">>, <<".">>, <<"+">>, <<"-">>, <<"%">>, <<" ">>,
     <<"U">>, <<"N">>}

RateTexts == UNION {[1..n -> RateAtoms] : n \in 0..MaxRate}

\* The prices clean_discount is given, as clean_price returns them: both unknown,
\* one unknown, issue below base, issue above base, equal.
P100 == <<"1", "0", "0">>

P1000 == <<"1", ",", "0", "0", "0">>

PricePairs == {<<Dash, Dash>>, <<P100, Dash>>, <<P100, P1000>>, <<P1000, P100>>, <<P100, P100>>}

\* The headers of a rate row: 할인율, 할증률, 할인율 또는 할증률
RateHeaders == {<<"D">>, <<"P">>, <<"D", "P">>}

\* ---------------------------------------------------------------- clean_date
\* text[p], or "" past the end of the text
char_at(text, p) == IF p \in 1..Len(text) THEN text[p] ELSE ""

\* str.zfill(2) of one or two digits
zfill(digits) == IF Len(digits) < 2 THEN <<"0">> \o digits ELSE digits

\* rights_issue.py 138: the pattern
\*   (20[2-3]\d)[\-\.년/]([0-1]?\d)[\-\.월/]([0-3]?\d)
\* tried at position p. The month takes two digits when the second is followed
\* by a separator and one digit otherwise; the day takes two digits when it can.
month_len(text, q) ==
    IF char_at(text, q) \in {"0", "1"} /\ IsDigit(char_at(text, q + 1))
       /\ char_at(text, q + 2) \in {"-", ".", "m", "/"}
    THEN 2
    ELSE IF IsDigit(char_at(text, q)) /\ char_at(text, q + 1) \in {"-", ".", "m", "/"}
    THEN 1
    ELSE 0

day_len(text, r) ==
    IF char_at(text, r) \in {"0", "1", "2", "3"} /\ IsDigit(char_at(text, r + 1)) THEN 2
    ELSE IF IsDigit(char_at(text, r)) THEN 1
    ELSE 0

date_match_at(text, p) ==
    /\ char_at(text, p) = "2"
    /\ char_at(text, p + 1) = "0"
    /\ char_at(text, p + 2) \in {"2", "3"}
    /\ IsDigit(char_at(text, p + 3))
    /\ char_at(text, p + 4) \in {"-", ".", "y", "/"}
    /\ month_len(text, p + 5) > 0
    /\ day_len(text, p + 5 + month_len(text, p + 5) + 1) > 0

\* rights_issue.py 132-142
clean_date(text) ==
    IF text = <<>> THEN Dash
    ELSE LET text_clean == re_sub({" "}, text)
         IN IF starts_undetermined(text_clean) THEN Dash
            ELSE IF \E p \in 1..Len(text_clean) : date_match_at(text_clean, p)
            THEN LET p == CHOOSE q \in 1..Len(text_clean) :
                              /\ date_match_at(text_clean, q)
                              /\ \A r \in 1..(q - 1) : ~date_match_at(text_clean, r)
                     q == p + 5
                     r == q + month_len(text_clean, q) + 1
                     y == SubSeq(text_clean, p, p + 3)
                     m_num == SubSeq(text_clean, q, q + month_len(text_clean, q) - 1)
                     d_num == SubSeq(text_clean, r, r + day_len(text_clean, r) - 1)
                 IN y \o <<"y", " ">> \o zfill(m_num) \o <<"m", " ">> \o zfill(d_num) \o <<"d">>
            ELSE Dash

\* The atoms of the date texts: a year with its separator (one of them before
\* 2020), a month with its separator, days, the phrase, a dash, a blank.
DateAtoms ==
    {<<"2", "0", "2", "6", ".">>, <<"2", "0", "2", "6", "y">>, <<"2", "0", "1", "9", ".">>,
     <<"4", ".">>, <<"1", "2", "m">>, <<"1", "3", "/">>,
     <<"7">>, <<"1", "7">>, <<"4", "5">>, <<"U">>, <<"-">>, <<" ">>}

\* The atoms of the price texts: numbers below and above the minimum, a year,
\* the characters clean_price removes, a letter, the phrases, a dash.
PriceAtoms ==
    {<<"5", "0">>, <<"1", "0", "0">>, <<"2", "0", "0">>, <<"2", "0", "2", "4">>,
     <<" ">>, <<",">>, <<"W">>, <<"a">>, <<"U">>, <<"N">>, <<"-">>}

\* ------------------------------------------------- the functions, called once
\* The updaters stay as they are before their first run.
Quiet ==
    /\ updater = "yusang"
    /\ report_nm = [k \in Keys |-> "RI"]
    /\ sheet = <<HeaderY>>
    /\ snapshot = <<HeaderY>>
    /\ inp = NoInput
    /\ pc = "idle"
    /\ cfg = 0
    /\ queue = <<>>
    /\ data_to_add = <<>>
    /\ runs = 0
    /\ outcome = "none"
    /\ ev = NoEvent
    /\ handled = {}
    /\ updated = {}

runvars == <<updater, report_nm, sheet, snapshot, inp, pc, cfg, queue, data_to_add, runs,
             outcome, ev, handled, updated>>

\* The calls: the function and its arguments.
PriceCall(t) == [fn |-> "clean_price", text |-> t]

DateCall(t) == [fn |-> "clean_date", text |-> t]

DiscountCall(t, p, h) ==
    [fn |-> "clean_discount", text |-> t, issue_p |-> p[1], base_p |-> p[2], header_text |-> h]

InitClean ==
    /\ Quiet
    /\ \/ \E t \in TextsOf(PriceAtoms) : arg = PriceCall(t)
       \/ \E t \in TextsOf(DateAtoms) : arg = DateCall(t)
       \/ \E t \in RateTexts, p \in PricePairs, h \in RateHeaders :
              arg = DiscountCall(t, p, h)
    /\ res = "pending"

CleanPrice ==
    /\ arg.fn = "clean_price"
    /\ res = "pending"
    /\ res' = clean_price(Flatten(arg.text))
    /\ UNCHANGED <<runvars, arg>>

CleanDiscount ==
    /\ arg.fn = "clean_discount"
    /\ res = "pending"
    /\ res' = clean_discount(Flatten(arg.text), arg.issue_p, arg.base_p, arg.header_text)
    /\ UNCHANGED <<runvars, arg>>

CleanDate ==
    /\ arg.fn = "clean_date"
    /\ res = "pending"
    /\ res' = clean_date(Flatten(arg.text))
    /\ UNCHANGED <<runvars, arg>>

NextClean ==
    \/ CleanPrice
    \/ CleanDate
    \/ CleanDiscount

SpecClean == InitClean /\ [][NextClean]_vars

\* ================================================ the document extraction
\* rights_issue.py 47-201 extract_xml_details: the document archive is fetched
\* and unpacked, the rows of its tables are scanned for labelled values, and the
\* values are cleaned.
V10000 == <<"1", "0", ",", "0", "0", "0">>

V9200 == <<"9", ",", "2", "0", "0">>

VDate == <<"2", "0", "2", "6", ".", "4", ".", "7">>

\* The rows the tables of a document are made of, each a sequence of cell texts:
\* a reference price, an issue price, a rate that does not apply, a premium, a
\* reference price left blank, an issue price repeated with another value, a
\* board date, a label with no cell after it, a label and its value in one cell.
RowAtoms ==
    {<<<<"B">>, V10000>>, <<<<"I">>, V9200>>, <<<<"D">>, <<"N">>>>, <<<<"P">>, <<"1", "%">>>>,
     <<<<"B">>, <<>>>>, <<<<"I">>, V10000>>, <<<<"A">>, VDate>>, <<<<"I">>>>,
     <<<<"I", ":">> \o V9200>>}

Tables == UNION {[1..n -> RowAtoms] : n \in 0..MaxRows}

\* A document: the rows of its table, in a table of their own or (nested) in a
\* table that stands in the second cell of a row of an outer table.
Documents == [rows : Tables, nested : BOOLEAN]

\* What the document endpoint answers:
\*   "raise"        the request raises
\*   "status"       a response with a status other than 200
\*   "notzip"       status 200 with a body that is not an archive
\*   "nomember"     an archive without a markup member (.xml, .html)
\*   "undecodable"  an archive whose markup member is not UTF-8
\*   "ok"           an archive with a markup member
\* doc is the text of the body or of the member read.
DocKinds == {"raise", "status", "notzip", "nomember", "undecodable", "ok"}

\* sep.join(texts)
RECURSIVE join(_, _)
join(sep, texts) ==
    IF texts = <<>> THEN <<>>
    ELSE IF Len(texts) = 1 THEN texts[1]
    ELSE texts[1] \o sep \o join(sep, Tail(texts))

\* The cells of row j, each with the row it stands in.
row_cells(rows, j) == [i \in 1..Len(rows[j]) |-> [text |-> rows[j][i], row |-> j]]

RECURSIVE all_cells(_, _)
all_cells(rows, j) ==
    IF j > Len(rows) THEN <<>> ELSE row_cells(rows, j) \o all_cells(rows, j + 1)

\* get_text(separator=' ', strip=True) of an element with these cells below it
get_text(cells) ==
    join(<<" ">>, SelectSeq([i \in 1..Len(cells) |-> cells[i].text], LAMBDA t : t # <<>>))

\* rights_issue.py 77-78: soup.find_all('tr') in document order, each with its
\* tr.find_all(['th', 'td']). find_all descends: for the row of the outer table
\* it returns the two cells of that row (row 0) and, after them, every cell of
\* the table nested in the second one.
find_all_tr(doc) ==
    LET inner == [j \in 1..Len(doc.rows) |-> row_cells(doc.rows, j)]
        below == all_cells(doc.rows, 1)
    IN IF doc.nested
       THEN << <<[text |-> <<"x">>, row |-> 0], [text |-> get_text(below), row |-> 0]>> \o below >>
            \o inner
       ELSE inner

RawFields ==
    {"issue_price", "base_price", "discount", "board_date", "pay_date", "div_date", "list_date"}

\* An entry of raw_data: the value captured for a field, the header it was
\* captured under (kept by the code for the discount), and, for stating the
\* properties, the row of the label cell and the rows of the cells of the value.
NotCaptured == [has |-> FALSE, val |-> <<>>, header |-> <<>>, label_row |-> 0, rows |-> {}]

\* rights_issue.py 93-113: the field a header is taken for, "none" when no
\* pattern of a field still missing matches
label_field(raw_data, header_clean) ==
    IF ~raw_data["issue_price"].has /\ contains(header_clean, "I") THEN "issue_price"
    ELSE IF ~raw_data["base_price"].has /\ char_at(header_clean, 1) = "B" THEN "base_price"
    ELSE IF ~raw_data["discount"].has
            /\ (contains(header_clean, "D") \/ contains(header_clean, "P")) THEN "discount"
    ELSE IF ~raw_data["board_date"].has /\ contains(header_clean, "A") THEN "board_date"
    ELSE IF ~raw_data["pay_date"].has /\ contains(header_clean, "Y") THEN "pay_date"
    ELSE IF ~raw_data["div_date"].has /\ contains(header_clean, "V") THEN "div_date"
    ELSE IF ~raw_data["list_date"].has /\ contains(header_clean, "L") THEN "list_date"
    ELSE "none"

\* rights_issue.py 90: val_raw, the texts of cells[i+1:] joined by a blank
val_raw(cells, i) == join(<<" ">>, [k \in 1..(Len(cells) - i) |-> cells[i + k].text])

\* rights_issue.py 81-113: the loop over the cells of one row, from cell i on
RECURSIVE scan_cells(_, _, _)
scan_cells(raw_data, cells, i) ==
    IF i > Len(cells) THEN raw_data
    ELSE LET header_clean == re_sub({" "}, cells[i].text)
             f == IF i + 1 <= Len(cells) THEN label_field(raw_data, header_clean) ELSE "none"
         IN scan_cells(IF f = "none" THEN raw_data
                       ELSE [raw_data EXCEPT ![f] =
                                [has |-> TRUE, val |-> val_raw(cells, i), header |-> header_clean,
                                 label_row |-> cells[i].row,
                                 rows |-> {cells[k].row : k \in (i + 1)..Len(cells)}]],
                       cells, i + 1)

\* rights_issue.py 57-60: the defaults
DefaultsY ==
    [issue_price |-> Dash, base_price |-> Dash, discount |-> Dash, board_date |-> Dash,
     pay_date |-> Dash, div_date |-> Dash, list_date |-> Dash, investor |-> <<"SEE_SOURCE">>]

\* rights_issue.py 186-196
clean_fields(raw_data, doc) ==
    LET issue_price == clean_price(raw_data["issue_price"].val)
        base_price == clean_price(raw_data["base_price"].val)
    IN [issue_price |-> issue_price,
        base_price |-> base_price,
        discount |-> clean_discount(raw_data["discount"].val, issue_price, base_price,
                                    raw_data["discount"].header),
        board_date |-> clean_date(raw_data["board_date"].val),
        pay_date |-> clean_date(raw_data["pay_date"].val),
        div_date |-> clean_date(raw_data["div_date"].val),
        list_date |-> clean_date(raw_data["list_date"].val),
        investor |-> IF \E j \in 1..Len(doc.rows) : \E i \in 1..Len(doc.rows[j]) :
                            contains(doc.rows[j][i], "T")
                     THEN <<"THIRD_PARTY">> ELSE <<"SEE_SOURCE">>]

\* ------------------------------------------ equity_linked.py 46-130
\* extract_bond_xml_details mines the text of the document, here a sequence of
\* words:
\*   "PUT" 조기상환청구권   "CALL" 매도청구권   "YLD" 수익률   "NA" 해당사항없음
\*   "5%" a percentage   "3RD" 제3자배정   "TXT" any other word
BondWords == {"PUT", "CALL", "YLD", "TXT", "NA", "5%", "3RD"}

BondTexts == UNION {[1..n -> BondWords] : n \in 0..MaxWords}

\* equity_linked.py 52-55: the defaults
DefaultsB ==
    [put_option |-> <<"X">>, call_option |-> <<"X">>, call_ratio |-> <<"X">>, ytc |-> <<"X">>,
     investor |-> <<"SEE_SOURCE">>]

\* equity_linked.py 76-102: the text after the last keyword, up to the next
\* stop word; "X" when there is no keyword or nothing but "not applicable".
\* (The texts are shorter than the 500 and 400 characters of the cuts.)
get_option_text(text, keyword, stops) ==
    IF \A i \in 1..Len(text) : text[i] # keyword THEN <<"X">>
    ELSE LET last == CHOOSE i \in 1..Len(text) :
                         text[i] = keyword /\ \A k \in (i + 1)..Len(text) : text[k] # keyword
             window_text == SubSeq(text, last + 1, Len(text))
             content == IF \E k \in 1..Len(window_text) : window_text[k] \in stops
                        THEN SubSeq(window_text, 1,
                                    (CHOOSE k \in 1..Len(window_text) :
                                        /\ window_text[k] \in stops
                                        /\ \A n \in 1..(k - 1) : window_text[n] \notin stops) - 1)
                        ELSE window_text
         IN IF content = <<>> \/ content = <<"NA">> THEN <<"X">> ELSE content

\* equity_linked.py 104-124
mine_bond_text(clean_text) ==
    LET put_option == get_option_text(clean_text, "PUT", {"CALL"})
        call_option == get_option_text(clean_text, "CALL", {"PUT"})
    IN [put_option |-> put_option,
        call_option |-> call_option,
        call_ratio |-> IF call_option # <<"X">> /\ contains(call_option, "5%")
                       THEN <<"5%">> ELSE <<"X">>,
        ytc |-> IF /\ call_option # <<"X">>
                   /\ \E i, j, k \in 1..Len(clean_text) :
                          /\ i < j /\ j < k
                          /\ clean_text[i] = "CALL" /\ clean_text[j] = "YLD" /\ clean_text[k] = "5%"
                THEN <<"5%">> ELSE <<"X">>,
        investor |-> IF contains(clean_text, "3RD") THEN <<"THIRD_PARTY">> ELSE <<"SEE_SOURCE">>]

\* ------------------------------------------------------ main.py 173-263
\* main.py 173-183: the keys of LABELS in their order, and the labels of the
\* rows that contain one of the variants of a key
MainKeys ==
    {"board_date", "subscription_date", "payment_date", "underwriter", "investor",
     "issue_price", "base_price", "discount_rate", "issue_amount"}

KeyOrder ==
    <<"board_date", "subscription_date", "payment_date", "underwriter", "investor",
      "issue_price", "base_price", "discount_rate", "issue_amount">>

LABELS ==
    [board_date |-> {"A"}, subscription_date |-> {}, payment_date |-> {"Y"}, underwriter |-> {},
     investor |-> {"T"}, issue_price |-> {"I"}, base_price |-> {"B"}, discount_rate |-> {"D"},
     issue_amount |-> {}]

\* any(v in cell for v in variants)
has_label(cell, key) == \E v \in LABELS[key] : contains(cell, v)

\* main.py 196-197: the first key of LABELS that has no value yet and a variant
\* in the cell, "none" when there is none
RECURSIVE first_key(_, _, _)
first_key(out, cell, n) ==
    IF n > Len(KeyOrder) THEN "none"
    ELSE IF out[KeyOrder[n]].val = <<>> /\ has_label(cell, KeyOrder[n]) THEN KeyOrder[n]
    ELSE first_key(out, cell, n + 1)

\* re.split(r"[:：]\s*", cell, maxsplit=1)[1]: the text after the first colon,
\* without the blanks that follow it
RECURSIVE lstrip(_)
lstrip(text) == IF text # <<>> /\ text[1] = " " THEN lstrip(Tail(text)) ELSE text

after_colon(cell) ==
    LET c == CHOOSE i \in 1..Len(cell) : cell[i] = ":" /\ \A k \in 1..(i - 1) : cell[k] # ":"
    IN lstrip(SubSeq(cell, c + 1, Len(cell)))

\* main.py 191-207: the cells of one row of a frame, from cell j on. The value
\* of a key is the non-empty cells to the right of the label cell, joined, or,
\* when there are none, the text after a colon in the label cell itself.
RECURSIVE scan_row_vals(_, _, _)
scan_row_vals(out, cells, j) ==
    IF j > Len(cells) THEN out
    ELSE LET cell == cells[j].text
             key == IF cell = <<>> THEN "none" ELSE first_key(out, cell, 1)
             right == SelectSeq(SubSeq(cells, j + 1, Len(cells)), LAMBDA x : x.text # <<>>)
             tail == [k \in 1..Len(right) |-> right[k].text]
         IN scan_row_vals(
                IF key = "none" THEN out
                ELSE IF tail # <<>>
                THEN [out EXCEPT ![key] =
                         [has |-> TRUE, val |-> join(<<" ">>, tail), header |-> cell,
                          label_row |-> cells[j].row, rows |-> {right[k].row : k \in 1..Len(right)}]]
                ELSE IF contains(cell, ":")
                THEN [out EXCEPT ![key] =
                         [has |-> after_colon(cell) # <<>>, val |-> after_colon(cell),
                          header |-> cell, label_row |-> cells[j].row, rows |-> {cells[j].row}]]
                ELSE out,
                cells, j + 1)

\* main.py 212-214: the lines of the text of the document, one for every cell
\* that is not empty
text_lines(doc) ==
    LET cells == all_cells(doc.rows, 1)
    IN SelectSeq([i \in 1..Len(cells) |-> cells[i].text], LAMBDA t : t # <<>>)

\* main.py 218-227: the value the lines give for a key, from line i on
RECURSIVE line_value(_, _, _)
line_value(lines, key, i) ==
    IF i > Len(lines) THEN <<>>
    ELSE IF has_label(lines[i], key)
    THEN IF contains(lines[i], ":") THEN after_colon(lines[i])
         ELSE IF i + 1 <= Len(lines) THEN lines[i + 1]
         ELSE line_value(lines, key, i + 1)
    ELSE line_value(lines, key, i + 1)

\* main.py 211-228
extract_from_text_fallback(doc, current) ==
    [key \in MainKeys |->
        IF current[key] # <<>> THEN current[key] ELSE line_value(text_lines(doc), key, 1)]

\* main.py 36-40 and 70-71: safe_get(doc, key), the text without the blanks at
\* its ends
RECURSIVE rstrip(_)
rstrip(text) ==
    IF text # <<>> /\ text[Len(text)] = " " THEN rstrip(SubSeq(text, 1, Len(text) - 1)) ELSE text

safe_get(doc, key) == rstrip(lstrip(doc[key]))

\* ---------------------------------------------- the extraction, step by step
\* res holds the position in the function (pc), the next row to scan (tr), the
\* values captured so far (raw_data) and the fields to return (extracted).
ExtractCall(fn, kind, doc) == [fn |-> fn, kind |-> kind, doc |-> doc]

\* What res holds when the function is entered: for the tables, nothing
\* captured; for the fields, the defaults of the function.
NoneCaptured(fn) ==
    CASE fn = "extract_xml_details" -> [f \in RawFields |-> NotCaptured]
      [] fn = "parse_document_fields" -> [f \in MainKeys |-> NotCaptured]
      [] OTHER -> <<>>

Defaults(fn) ==
    CASE fn = "extract_xml_details" -> DefaultsY
      [] fn = "parse_document_fields" -> [f \in MainKeys |-> <<>>]
      [] OTHER -> DefaultsB

InitExtract ==
    /\ Quiet
    /\ \E kind \in DocKinds :
           \/ \E doc \in Documents : arg = ExtractCall("extract_xml_details", kind, doc)
           \/ \E doc \in BondTexts : arg = ExtractCall("extract_bond_xml_details", kind, doc)
           \/ \E doc \in Documents :
                  ~doc.nested /\ arg = ExtractCall("parse_document_fields", kind, doc)
    /\ res = [pc |-> "fetch", tr |-> 1, raw_data |-> NoneCaptured(arg.fn),
              extracted |-> Defaults(arg.fn)]

\* rights_issue.py 62-71 and 198-201: the request, the status test, the archive
\* and its .xml member; an exception anywhere leaves the defaults.
FetchY ==
    /\ arg.fn = "extract_xml_details"
    /\ res.pc = "fetch"
    /\ res' = [res EXCEPT !.pc = IF arg.kind = "ok" THEN "rows" ELSE "return"]
    /\ UNCHANGED <<runvars, arg>>

\* rights_issue.py 77-113: one row of the loop over the rows
ScanRowY ==
    /\ arg.fn = "extract_xml_details"
    /\ res.pc = "rows"
    /\ res.tr <= Len(find_all_tr(arg.doc))
    /\ res' = [res EXCEPT !.raw_data = scan_cells(res.raw_data, find_all_tr(arg.doc)[res.tr], 1),
                          !.tr = res.tr + 1]
    /\ UNCHANGED <<runvars, arg>>

\* rights_issue.py 186-201: after the last row
CleanFieldsY ==
    /\ arg.fn = "extract_xml_details"
    /\ res.pc = "rows"
    /\ res.tr > Len(find_all_tr(arg.doc))
    /\ res' = [res EXCEPT !.extracted = clean_fields(res.raw_data, arg.doc), !.pc = "return"]
    /\ UNCHANGED <<runvars, arg>>

\* equity_linked.py 57-66 and 127-130: as in extract_xml_details
FetchB ==
    /\ arg.fn = "extract_bond_xml_details"
    /\ res.pc = "fetch"
    /\ res' = [res EXCEPT !.pc = IF arg.kind = "ok" THEN "mine" ELSE "return"]
    /\ UNCHANGED <<runvars, arg>>

\* equity_linked.py 69-130
MineB ==
    /\ arg.fn = "extract_bond_xml_details"
    /\ res.pc = "mine"
    /\ res' = [res EXCEPT !.extracted = mine_bond_text(arg.doc), !.pc = "return"]
    /\ UNCHANGED <<runvars, arg>>

\* main.py 166-171, 230-258 and 388-393: a request that raises or a status
\* that is not a success raises out of parse_document_fields, and the caller
\* takes {} for the fields. A body that is not an archive is decoded as it is,
\* an archive without a .html member gives its largest member, and a member that
\* is not UTF-8 is decoded anyhow: in all three the text goes on to the tables,
\* unless it is empty, which returns {}.
FetchM ==
    /\ arg.fn = "parse_document_fields"
    /\ res.pc = "fetch"
    /\ res' = [res EXCEPT !.pc = IF arg.kind \in {"raise", "status"} \/ arg.doc.rows = <<>>
                                 THEN "return" ELSE "rows"]
    /\ UNCHANGED <<runvars, arg>>

\* main.py 190-207: one row of the frames read from the tables
ScanRowM ==
    /\ arg.fn = "parse_document_fields"
    /\ res.pc = "rows"
    /\ res.tr <= Len(arg.doc.rows)
    /\ res' = [res EXCEPT !.raw_data = scan_row_vals(res.raw_data, row_cells(arg.doc.rows, res.tr), 1),
                          !.tr = res.tr + 1]
    /\ UNCHANGED <<runvars, arg>>

\* main.py 263: after the tables, the lines of the text
FallbackM ==
    /\ arg.fn = "parse_document_fields"
    /\ res.pc = "rows"
    /\ res.tr > Len(arg.doc.rows)
    /\ res' = [res EXCEPT !.extracted =
                              extract_from_text_fallback(arg.doc,
                                  [key \in MainKeys |-> res.raw_data[key].val]),
                          !.pc = "return"]
    /\ UNCHANGED <<runvars, arg>>

NextExtract ==
    \/ FetchY
    \/ ScanRowY
    \/ CleanFieldsY
    \/ FetchB
    \/ MineB
    \/ FetchM
    \/ ScanRowM
    \/ FallbackM

SpecExtract == InitExtract /\ [][NextExtract]_vars

\* ================================================================ properties
\* ------------------------------------------------------------ vocabulary
\* The rows of table s that hold identity key k.
RowsOf(s, k) == {j \in 1..Len(s) : s[j].rcept_no = k}

\* The rows the current run has appended to the worksheet.
Appended == (Len(snapshot) + 1)..Len(sheet)

\* The rows of key k queued for the batched append.
Pending(k) == {j \in 1..Len(data_to_add) : data_to_add[j].rcept_no = k}

\* The row the current run computes for filing k from what the endpoints answer.
FreshRow(k) ==
    CASE updater = "yusang" -> new_row(k, inp[k].lc > 0, inp[k].det, inp[k].doc)
      [] updater = "bonds"  -> format_bond_row(k, report_nm[k], inp[k].det, inp[k].doc)
      [] OTHER              -> build_row(k, inp[k].det, inp[k].doc)

\* The last step was a loop iteration for one filing.
Iteration == ev.kind \in {"queue", "update", "skip", "ungated", "abort"}

\* The run ran to its end.
RunCompleted == pc = "ended" /\ outcome = "done"

\* The stored row the index maps key k to.
IndexRow(k) == IF updater = "bonds" THEN rcept_row_map(snapshot, k) ELSE FirstRow(snapshot, k)

\* The list query reports filing k and the detail endpoint has its record.
Reported(k) == inp[k].lc > 0 /\ inp[k].det \notin {"none", "error"}

\* ------------------------------------------------------------ C1
\* C1: row-identity invariant. Starting from a table with at most one row per
\* identity key, after any sequence of runs at most one row of the table holds
\* any given key, also when one run's list data names the key more than once.
C1_RowIdentity == \A k \in Keys : Cardinality(RowsOf(sheet, k)) <= 1

\* ------------------------------------------------------------ C2
\* C2: APPEND decision. When a run has completed, every filing it processed
\* whose key was absent from the index read at the start has exactly one row
\* appended in that run, and no update was issued for it.
C2_AppendOnce ==
    RunCompleted =>
        \A k \in handled \ KeysOf(snapshot) :
            /\ Cardinality({j \in Appended : sheet[j].rcept_no = k}) = 1
            /\ k \notin updated

RerunCompleted == runs = MaxRuns + 1 /\ pc = "ended" /\ outcome \in {"done", "returned"}

C6_NoRegression ==
    [][\A j \in 2..Len(sheet) : \A f \in ExtFields(updater) :
          (sheet[j][f] \notin Unknown) => (sheet'[j][f] \notin Unknown)]_vars

InRun(k) ==
    CASE updater = "yusang" -> inp[k].det # "none"
      [] updater = "bonds"  -> inp[k].lc > 0 /\ inp[k].det # "none"
      [] OTHER              -> inp[k].lc > 0 /\ k \notin KeysOf(snapshot)

\* C10: failure isolation. When the processing of one filing has failed, every
\* other filing of the run is still processed: its loop iteration runs and,
\* when its key was absent from the index, its row is written.
C10_Isolation ==
    (pc = "ended" /\ ev.kind = "abort") =>
        \A k \in Keys \ {ev.rcept_no} :
            InRun(k) => (k \in handled /\ (k \notin KeysOf(snapshot) => k \in KeysOf(sheet)))

RECURSIVE comma_groups(_)
comma_groups(text) ==
    IF Len(text) >= 4 /\ text[1] = "," /\ Len(lead_digits(Tail(text))) = 3
    THEN SubSeq(text, 2, 4) \o comma_groups(SubSeq(text, 5, Len(text)))
    ELSE <<>>

\* The numeric tokens of a text as written, left to right: a run of digits with
\* its thousands groups.
RECURSIVE number_tokens(_)
number_tokens(text) ==
    IF text = <<>> THEN <<>>
    ELSE IF IsDigit(text[1])
    THEN LET d == lead_digits(text)
             g == comma_groups(SubSeq(text, Len(d) + 1, Len(text)))
             used == Len(d) + Len(g) + (Len(g) \div 3)
         IN <<d \o g>> \o number_tokens(SubSeq(text, used + 1, Len(text)))
    ELSE number_tokens(Tail(text))

\* The tokens that are at least the minimum magnitude and not a year.
valid_prices(text) ==
    SelectSeq(number_tokens(text), LAMBDA t : Len(int(t)) >= 3 /\ int(t) \notin Years)

\* C20: price validation. clean_price returns the unknown marker or the first
\* numeric token of the cell text that is neither below 100 nor a year, with
\* thousands separators; never a number joined from separate tokens.
C20_FirstValidToken ==
    (arg.fn = "clean_price" /\ res # "pending") =>
        \/ res = Dash
        \/ /\ valid_prices(Flatten(arg.text)) # <<>>
           /\ res = format_comma(int(Head(valid_prices(Flatten(arg.text)))))

\* ------------------------------------------------- C12, C16 .. C19: the rate
\* clean_discount has been called and has returned.
DiscountDone == arg.fn = "clean_discount" /\ res # "pending"

\* Both prices given to clean_discount are known.
PricesKnown == arg.issue_p # Dash /\ arg.base_p # Dash

IssueAbove ==
    PricesKnown /\ numeral_gt(re_sub({","}, arg.issue_p), re_sub({","}, arg.base_p))

IssueBelow ==
    PricesKnown /\ numeral_gt(re_sub({","}, arg.base_p), re_sub({","}, arg.issue_p))

\* The rate text without its blanks, and its first rate-shaped token.
RateText == re_sub({" "}, Flatten(arg.text))

RateToken == rate_search(RateText)

TokenIsZero ==
    RateToken.found /\ \A p \in 1..Len(RateToken.whole \o RateToken.frac) :
                           (RateToken.whole \o RateToken.frac)[p] = "0"

\* The magnitude of the token is above 100.
TokenOver100 ==
    /\ RateToken.found
    /\ \/ Len(int(RateToken.whole)) > 3
       \/ /\ Len(int(RateToken.whole)) = 3
          /\ \/ int(RateToken.whole) # <<"1", "0", "0">>
             \/ \E p \in 1..Len(RateToken.frac) : RateToken.frac[p] # "0"

\* A signed rate: neither the unknown marker nor the explicit zero.
SignedRate == DiscountDone /\ res # Dash /\ res # Zero

\* C12 as the specification words it: whenever both prices and the rate are
\* known, issue above reference gives a positive rate and issue below reference
\* a negative one.
C12_SignMatchesPrices ==
    (DiscountDone /\ PricesKnown /\ res # Dash) =>
        /\ IssueAbove => res[1] = "+"
        /\ IssueBelow => res[1] = "-"

\* C12: sign invariant. When both prices and the rate are known and the rate is
\* not the explicit zero "0.00%", the sign of the rate matches the comparison
\* of the prices: issue above reference is positive, issue below is negative.
C12_SignMatchesUnlessZero ==
    (SignedRate /\ PricesKnown) =>
        /\ IssueAbove => res[1] = "+"
        /\ IssueBelow => res[1] = "-"

\* A rate written with a plus sign, with the issue price below the reference
\* price, has come out negative.
C12_Witness ==
    /\ SignedRate
    /\ IssueBelow
    /\ RateToken.sign = "+"
    /\ res[1] = "-"

\* C17 as the specification words it: the glyph of the token first, then the
\* comparison of the prices, then the wording of the label.
C17_GlyphFirst ==
    SignedRate =>
        /\ RateToken.sign # "" => res[1] = RateToken.sign
        /\ (RateToken.sign = "" /\ IssueAbove) => res[1] = "+"
        /\ (RateToken.sign = "" /\ IssueBelow) => res[1] = "-"
        /\ (RateToken.sign = "" /\ ~IssueAbove /\ ~IssueBelow) =>
               res[1] = (IF arg.header_text = <<"P">> THEN "+" ELSE "-")

\* C17: sign priority order. (a) When both prices are known and differ, the sign
\* follows the comparison of the prices; (b) only otherwise, a "+" or "-" glyph
\* on the token gives the sign; (c) only when neither applies, the label does:
\* a premium-only label is positive, a discount-only or combined one negative.
C17_PricesFirst ==
    SignedRate =>
        /\ IssueAbove => res[1] = "+"
        /\ IssueBelow => res[1] = "-"
        /\ (~IssueAbove /\ ~IssueBelow /\ RateToken.sign # "") => res[1] = RateToken.sign
        /\ (~IssueAbove /\ ~IssueBelow /\ RateToken.sign = "") =>
               res[1] = (IF arg.header_text = <<"P">> THEN "+" ELSE "-")

\* A rate written without a glyph, with no comparison of prices to follow, has
\* taken the positive sign of a premium-only label.
C17_Witness ==
    /\ SignedRate
    /\ ~PricesKnown
    /\ RateToken.sign = ""
    /\ arg.header_text = <<"P">>
    /\ res[1] = "+"

\* C18: explicit zero. When the first rate-shaped token of the rate text has
\* the value zero, or the text begins with a "not applicable" phrase, the rate
\* is "0.00%", whatever the prices and the label are.
C18_ExplicitZero ==
    (DiscountDone /\ (TokenIsZero \/ (RateText # <<>> /\ RateText[1] = "N"))) => res = Zero

\* A zero token has given the explicit zero although the issue price is below
\* the reference price and the label is a premium.
C18_Witness ==
    /\ DiscountDone
    /\ TokenIsZero
    /\ RateText[1] # "N"
    /\ IssueBelow
    /\ arg.header_text = <<"P">>
    /\ res = Zero

\* The magnitude of a written rate is at most 100.
WrittenWithin100 ==
    SignedRate =>
        LET w == lead_digits(Tail(res))
        IN Len(w) < 3 \/ (w = <<"1", "0", "0">> /\ SubSeq(res, 5, 7) = <<".", "0", "0">>)

CleanDone == arg.fn \in {"clean_price", "clean_date", "clean_discount"} /\ res # "pending"

\* The candidate text begins with the "undetermined" phrase.
BeginsUndetermined ==
    LET text == re_sub({" "}, Flatten(arg.text)) IN text # <<>> /\ text[1] = "U"

\* C13: no-guess invariant. For every price, date and rate field, a candidate
\* text that begins with an "undetermined" phrase gives the unknown marker "-",
\* never zero and never a number or a date from elsewhere in the text.
C13_NoGuess == (CleanDone /\ BeginsUndetermined) => res = Dash

\* ------------------------------------------------------ C14 .. C16: documents
\* The cells of a captured value stand in the row of the label cell. (Row 0, the
\* row of the outer table, encloses every cell of the table nested in it.)
SameRow(entry) == entry.has => (entry.label_row = 0 \/ entry.rows \subseteq {entry.label_row})

\* C14: same-row, first-match extraction. The raw value captured for a field
\* consists only of cells of the row of the matching label cell, to its right,
\* never of cells of another row; and once a field has been captured, no later
\* row changes its value.
C14_SameRowFirstMatch ==
    [][/\ \A f \in DOMAIN res'.raw_data : SameRow(res'.raw_data[f])
       /\ \A f \in DOMAIN res.raw_data :
              res.raw_data[f].has => res'.raw_data[f] = res.raw_data[f]]_vars

\* Scenario A: the table has a row "reference price | 10,000", then a row "issue
\* price | 9,200", and the rate row reads "not applicable"; extract_xml_details
\* has returned.
ScenarioA ==
    /\ arg.fn = "extract_xml_details"
    /\ arg.kind = "ok"
    /\ arg.doc = [rows |-> <<<<<<"B">>, V10000>>, <<<<"I">>, V9200>>, <<<<"D">>, <<"N">>>>>>,
                  nested |-> FALSE]
    /\ res.pc = "return"

\* C16 as the specification words it: the reference price is 10,000, the issue
\* price 9,200, and the rate has the negative sign of the price comparison.
C16_ScenarioANegative ==
    ScenarioA =>
        /\ res.extracted.base_price = V10000
        /\ res.extracted.issue_price = V9200
        /\ res.extracted.discount[1] = "-"

\* C16: Scenario A. Extraction yields reference price 10,000 and issue price
\* 9,200, each from its own row, and the rate is the explicit zero "0.00%": no
\* sign is inferred for a rate that does not apply.
C16_ScenarioAZero ==
    ScenarioA =>
        /\ res.extracted.base_price = V10000
        /\ res.extracted.issue_price = V9200
        /\ res.extracted.discount = Zero

\* The document of Scenario A has been extracted, with both prices found.
C16_Witness ==
    /\ ScenarioA
    /\ res.raw_data["base_price"].label_row = 1
    /\ res.raw_data["issue_price"].label_row = 2
    /\ res.extracted.issue_price # Dash

\* The values that stand for "unknown" in the fields of the three functions.
UnknownMarks == {Dash, <<>>, <<"X">>, <<"SEE_SOURCE">>}

\* C15: all-unknown on extraction failure. When the archive cannot be fetched
\* (error or non-success response), cannot be unpacked, contains no markup
\* member or cannot be parsed, every field returned is its unknown marker.
C15_AllUnknownOnFailure ==
    (arg.kind # "ok" /\ res.pc = "return") =>
        \A f \in DOMAIN res.extracted : res.extracted[f] \in UnknownMarks

\* ------------------------------------------------------------ C21
\* A date in the normalized format: four digits, 년, two digits, 월, two
\* digits, 일.
IsNormalizedDate(text) ==
    /\ Len(text) = 13
    /\ \A p \in {1, 2, 3, 4, 7, 8, 11, 12} : IsDigit(text[p])
    /\ text[5] = "y" /\ text[6] = " "
    /\ text[9] = "m" /\ text[10] = " "
    /\ text[13] = "d"

\* The date fields a function has returned, as the row shows them.
DateColumns ==
    IF arg.fn = "extract_xml_details"
    THEN {res.extracted[f] : f \in {"board_date", "pay_date", "div_date", "list_date"}}
    ELSE IF arg.fn = "parse_document_fields"
    THEN {safe_get(res.extracted, f) : f \in {"board_date", "subscription_date", "payment_date"}}
    ELSE {}

\* C21: date normalization. Every date field that comes out of the extraction
\* is the unknown marker or a date in the normalized format, whichever
\* delimiters the document used.
C21_DatesNormalized ==
    res.pc = "return" => \A date \in DateColumns : date \in UnknownMarks \/ IsNormalizedDate(date)

\* ------------------------------------------------------------ C22
\* The list query of the current run reported filing k under a title that holds
\* the keyword of the table being written.
PassedFilter(k) == inp[k].lc > 0

\* The keys of the rows the current run has appended, and the key of the row the
\* last step overwrote.
WrittenKeys ==
    {sheet[j].rcept_no : j \in Appended}
        \cup (IF ev.kind = "update" THEN {ev.rcept_no} ELSE {})

\* C22: category filter. Every row appended or overwritten in a run belongs to
\* a filing that the list query reported in that run under a title matching the
\* table's category keyword; a detail record whose key did not pass the keyword
\* filter is never written.
C22_CategoryFilter ==
    pc # "idle" => \A k \in WrittenKeys : PassedFilter(k)

\* ------------------------------------------------------------ C23
\* The rows the step changes.
ChangedRows == {j \in 1..Len(sheet) : j > Len(sheet') \/ sheet'[j] # sheet[j]}

\* C23: overwrite frame. An overwrite issued for the filing with key k keeps the
\* number of rows and changes no row but the one the index read at the start of
\* the run maps k to, a row below the header whose key column holds k; this
\* also when rows were appended earlier in the same run.
C23_OverwriteFrame ==
    [][ev'.kind = "update" =>
          /\ Len(sheet') = Len(sheet)
          /\ \A j \in ChangedRows :
                /\ j = IndexRow(ev'.rcept_no)
                /\ j > 1
                /\ sheet[j].rcept_no = ev'.rcept_no
          /\ sheet'[ev'.idx].rcept_no = ev'.rcept_no]_vars

\* An overwrite has changed a stored row after the same run had appended the
\* row of another filing.
C23_Witness ==
    /\ ev.kind = "update"
    /\ sheet[ev.idx] # ev.stored
    /\ \E j \in Appended : sheet[j].rcept_no # ev.rcept_no

\* The same for get_and_update_yusang, whose appends come after its overwrites.
C23_WitnessYusang ==
    /\ updater = "yusang"
    /\ ev.kind = "update"
    /\ sheet[ev.idx] # ev.stored
    /\ \E j \in 2..Len(snapshot) : sheet[j].rcept_no # ev.rcept_no

\* ------------------------------------------------------------ C24
\* The stored row holds a placeholder in one of the columns put option, call
\* option, call ratio, conversion/exercise price.
HoldsPlaceholder(stored) ==
    \E f \in {"put_option", "call_option", "call_ratio", "price"} :
        stored[f] \in {"X", "-", "", "NONE"}

\* The last step of get_and_update_bonds handled a filing whose key is in the index.
BondIteration == updater = "bonds" /\ Iteration /\ ev.rcept_no \in KeysOf(snapshot)

\* C24: bond-table rewrite gating. get_and_update_bonds issues the rewrite of a
\* stored row only if one of its columns put option, call option, call ratio,
\* price holds a placeholder and the fresh row differs from the stored row; for
\* a stored row with none of the four holding a placeholder no document is
\* fetched and no row computed, and through the whole run the row stays as it
\* was read, whatever the fresh data.
C24_RewriteGating ==
    /\ BondIteration =>
          LET stored == snapshot[ev.idx]
          IN /\ ev.kind \in {"update", "abort"} =>
                    (HoldsPlaceholder(stored) /\ ev.fresh # stored)
             /\ ~HoldsPlaceholder(stored) =>
                    (ev.kind = "ungated" /\ ev.fresh = NoRow)
    /\ (updater = "bonds" /\ pc # "idle") =>
          \A j \in 2..Len(snapshot) :
              ~HoldsPlaceholder(snapshot[j]) => sheet[j] = snapshot[j]

\* A stored row with the four columns filled was left alone although the row the
\* endpoints' answers give differs from it.
C24_Witness ==
    /\ BondIteration
    /\ ev.kind = "ungated"
    /\ ~HoldsPlaceholder(snapshot[ev.idx])
    /\ FreshRow(ev.rcept_no) # snapshot[ev.idx]
    /\ sheet[ev.idx] = snapshot[ev.idx]

====
